---- MODULE Spec2Model ----
(***************************************************************************)
(* Review scraper: the GET /api/reviews handler of the two backends        *)
(* (Playwright: backend/ind2_play.js, Selenium: the server listed in       *)
(* README.md), with the helpers chunkHtml, filterChunksWithReviews and     *)
(* extractSelectors they share.                                            *)
(*                                                                         *)
(* Text (HTML, element text, aria-label) is a sequence of one-character    *)
(* strings.  Selector values are strings; Undefined stands for JavaScript  *)
(* undefined and "" for the empty string.  A JavaScript object is a        *)
(* function from its keys to values.                                       *)
(***************************************************************************)
EXTENDS Integers, Sequences, FiniteSets, TLC

VARIABLES
  backend,      \* which server handles the request
  query,        \* req.query of the request
  pc,           \* the await the handler is suspended at
  browser,      \* the browser session: "none", "open" or "closed"
  allReviews,   \* let allReviews
  selectors,    \* let selectors (the handler's cache); Null before resolution
  resolver,     \* the locals of the running extractSelectors call
  pageNo,       \* the page of the listing the browser shows
  passes,       \* number of records each extraction pass returned
  exit,         \* how the pagination loop was left
  fault,        \* the exception that was thrown, if any
  ops,          \* the browser and inference calls made so far, in order
  responses,    \* the responses sent on res, in order
  chunker       \* one call of chunkHtml: its arguments and what it returned

vars == <<backend, query, pc, browser, allReviews, selectors, resolver,
          pageNo, passes, exit, fault, ops, responses, chunker>>

----------------------------------------------------------------------------
(* Bounds of the model *)

\* largest numReviews / maxReviews a request carries explicitly
MaxNumReviews == 2
\* most review containers one page holds
MaxPerPage == 3
\* longest string and largest chunk size chunkHtml is called with directly
MaxHtmlLen == 4
MaxChunkSize == 3
\* most pages a listing has (the next-page control is absent on the last)
MaxPages == 3
\* the default chunkSize of chunkHtml, scaled down from 20000 characters
DefaultChunkSize == 8

\* numReviews = 5 in the destructuring default
DefaultNumReviews == 5

Reqs == {1, 2}
Backends == {"playwright", "selenium"}

----------------------------------------------------------------------------
(* JavaScript values *)

Undefined == "undefined"
Absent == [present |-> FALSE]
Null == [null |-> TRUE]

Fields == {"container", "name", "rating", "review", "date", "nextPageSelector"}

\* {}
EmptyObject == [f \in {} |-> Undefined]

\* obj.f
Get(obj, f) == IF f \in DOMAIN obj THEN obj[f] ELSE Undefined

\* !!v for a selector value
Truthy(v) == v # Undefined /\ v # ""

\* a || b
Or(a, b) == IF Truthy(a) THEN a ELSE b

Min(a, b) == IF a < b THEN a ELSE b

\* arr.slice(0, n)
Slice(arr, n) == SubSeq(arr, 1, Min(Len(arr), n))

\* arr.reverse()
Reverse(arr) == [k \in 1..Len(arr) |-> arr[Len(arr) + 1 - k]]

----------------------------------------------------------------------------
(* Text *)

WhiteSpace == {" ", "\t", "\n"}
Digits == {"0", "1", "2", "3", "4", "5", "6", "7", "8", "9"}

DigitValue(c) ==
  CASE c = "0" -> 0 [] c = "1" -> 1 [] c = "2" -> 2 [] c = "3" -> 3
    [] c = "4" -> 4 [] c = "5" -> 5 [] c = "6" -> 6 [] c = "7" -> 7
    [] c = "8" -> 8 [] c = "9" -> 9

\* String.prototype.toLowerCase, on the letters the model uses
LowerChar(c) ==
  CASE c = "R" -> "r" [] c = "A" -> "a" [] c = "T" -> "t" [] c = "I" -> "i"
    [] c = "N" -> "n" [] c = "G" -> "g" [] c = "S" -> "s"
    [] OTHER -> c

toLowerCase(s) == [k \in 1..Len(s) |-> LowerChar(s[k])]

\* String.prototype.includes
includes(s, word) ==
  \E k \in 1..(Len(s) - Len(word) + 1) : SubSeq(s, k, k + Len(word) - 1) = word

\* String.prototype.trim
RECURSIVE TrimLeft(_)
TrimLeft(s) ==
  IF s # <<>> /\ Head(s) \in WhiteSpace THEN TrimLeft(Tail(s)) ELSE s

trim(s) == Reverse(TrimLeft(Reverse(TrimLeft(s))))

\* parseInt(digits, 10) of a string of decimal digits
RECURSIVE parseInt(_)
parseInt(digits) ==
  IF digits = <<>> THEN 0
  ELSE 10 * parseInt(SubSeq(digits, 1, Len(digits) - 1))
         + DigitValue(digits[Len(digits)])


----------------------------------------------------------------------------
(* chunkHtml and filterChunksWithReviews *)

\* function chunkHtml(html, chunkSize = 20000)
RECURSIVE chunkHtmlFrom(_, _, _)
chunkHtmlFrom(html, chunkSize, i) ==
  IF i < Len(html)
  THEN <<SubSeq(html, i + 1, Min(i + chunkSize, Len(html)))>>
         \o chunkHtmlFrom(html, chunkSize, i + chunkSize)
  ELSE <<>>

\* a chunker that keeps the full windows only
chunkHtmlFullWindows(html, chunkSize) ==
  SelectSeq(chunkHtmlFrom(html, chunkSize, 0), LAMBDA c : Len(c) = chunkSize)

chunkHtml(html, chunkSize) == chunkHtmlFrom(html, chunkSize, 0)

ratingWord == <<"r", "a", "t", "i", "n", "g">>

\* chunk.toLowerCase().includes('rating')
HasReviews(chunk) == includes(toLowerCase(chunk), ratingWord)

\* function filterChunksWithReviews(chunks)
filterChunksWithReviews(chunks) == SelectSeq(chunks, HasReviews)

----------------------------------------------------------------------------
(* The page.evaluate / driver.executeScript callback *)

starWord == <<"s", "t", "a", "r">>

RECURSIVE RunEnd(_, _, _)
\* the last index of the run of characters of class cls that starts at i
RunEnd(s, i, cls) ==
  IF i + 1 <= Len(s) /\ s[i + 1] \in cls THEN RunEnd(s, i + 1, cls) ELSE i

\* /(\d+)\s+star/ matches with its first character at index i
MatchesAt(s, i) ==
  /\ s[i] \in Digits
  /\ LET j == RunEnd(s, i, Digits) IN
       /\ j + 1 <= Len(s)
       /\ s[j + 1] \in WhiteSpace
       /\ LET k == RunEnd(s, j + 1, WhiteSpace) IN
            /\ k + 4 <= Len(s)
            /\ SubSeq(s, k + 1, k + 4) = starWord

MatchStarts(s) == {i \in 1..Len(s) : MatchesAt(s, i)}

\* ariaLabel.match(/(\d+)\s+star/): the leftmost match
HasMatch(s) == MatchStarts(s) # {}

\* match[1]
MatchGroup(s) ==
  LET i == CHOOSE m \in MatchStarts(s) : \A n \in MatchStarts(s) : m <= n
  IN SubSeq(s, i, RunEnd(s, i, Digits))

\* let rating = 0; if (ratingElement) { ... }
RatingOf(ratingElement) ==
  IF ~ratingElement.present THEN 0
  ELSE IF ~ratingElement.hasLabel \/ ratingElement.label = <<>> THEN 0
  ELSE IF HasMatch(ratingElement.label)
       THEN parseInt(MatchGroup(ratingElement.label))
       ELSE 0

\* review.querySelector(selectors[f])
querySelector(review, sel, f) ==
  IF Truthy(Get(sel, f)) THEN review[f] ELSE Absent

\* element?.textContent?.trim() || ''
TextOf(element) == IF element.present THEN trim(element.text) ELSE <<>>

\* the record the callback returns for one review container
ExtractReview(review, sel) ==
  [title    |-> TextOf(querySelector(review, sel, "name")),
   body     |-> TextOf(querySelector(review, sel, "review")),
   rating   |-> RatingOf(querySelector(review, sel, "rating")),
   reviewer |-> TextOf(querySelector(review, sel, "name")),
   date     |-> TextOf(querySelector(review, sel, "date"))]

\* Array.from(document.querySelectorAll(selectors.container)).map(...)
ExtractReviews(reviewElements, sel) ==
  IF Truthy(Get(sel, "container"))
  THEN [k \in 1..Len(reviewElements) |-> ExtractReview(reviewElements[k], sel)]
  ELSE <<>>

\* a filter that looks at the title only
IsRetainedTitleOnly(review) == review.title # <<>>

\* (review) => review.title && review.body
IsRetained(review) == review.title # <<>> /\ review.body # <<>>

\* filtering without the slice
FilteredReviewsUntrimmed(all, n) == SelectSeq(all, IsRetained)

\* filtering first and trimming afterwards
FilteredReviewsFilterFirst(all, n) == Slice(SelectSeq(all, IsRetained), n)

\* allReviews.slice(0, numReviews).filter(...)
FilteredReviews(all, n) == SelectSeq(Slice(all, n), IsRetained)

\* while (allReviews.length < numReviews)
WhileCondition(all, n) == Len(all) < n

\* a loop without the early break
EnoughNever(all, n) == FALSE

\* a break that needs more than the target
EnoughStrict(all, n) == Len(all) > n

\* if (allReviews.length >= numReviews) break
Enough(all, n) == Len(all) >= n

----------------------------------------------------------------------------
(* extractSelectors: one turn of the loop over reviewChunks *)

\* the object literal assigned to selectors when chunkSelectors is truthy
Merge(chunkSelectors, sel) ==
  [f \in Fields |-> Or(Get(chunkSelectors, f), Get(sel, f))]

\* a check of container, name, review and date only
AllPopulatedRequired(sel) ==
  \A f \in {"container", "name", "review", "date"} : Truthy(Get(sel, f))

\* Object.values(selectors).every((selector) => !!selector)
AllPopulated(sel) == \A f \in DOMAIN sel : Truthy(sel[f])

\* a loop body whose catch blocks start over from an empty selector set
AfterInferenceForgetful(loc, out) ==
  IF out.kind = "json"
  THEN LET merged == IF out.truthy THEN Merge(out.value, loc.selectors)
                     ELSE loc.selectors
       IN [loc EXCEPT !.selectors = merged,
                      !.selectorsFound = AllPopulated(merged),
                      !.i = loc.i + 1]
  ELSE [loc EXCEPT !.selectors = [f \in {} |-> Undefined], !.i = loc.i + 1]

\* the try block of the loop body, given what the inference call produced
AfterInference(loc, out) ==
  IF out.kind = "json"
  THEN LET merged == IF out.truthy THEN Merge(out.value, loc.selectors)
                     ELSE loc.selectors
       IN [loc EXCEPT !.selectors = merged,
                      !.selectorsFound = AllPopulated(merged),
                      !.i = loc.i + 1]
  ELSE [loc EXCEPT !.i = loc.i + 1]

\* the for-loop condition together with the break at the top of the body
LoopContinues(loc) == loc.i < Len(loc.reviewChunks) /\ ~loc.selectorsFound


----------------------------------------------------------------------------
(* Inputs: requests, page snapshots, inference results, review containers *)

Param(v) == [present |-> TRUE, value |-> v]

Counts == {Absent} \cup {Param(n) : n \in 1..MaxNumReviews}

Urls == {Absent, Param(""), Param("https://shop.example/item")}

\* a request names its count as numReviews, as maxReviews, or not at all
Queries ==
  { q \in [url : Urls, numReviews : Counts, maxReviews : Counts] :
      ~(q.numReviews.present /\ q.maxReviews.present) }

\* a check that rejects the empty string only
NoUrlEmptyOnly(q) == q.url.present /\ q.url.value = ""

\* !url
NoUrl(q) == ~q.url.present \/ q.url.value = ""

\* const { url, numReviews = 5 } = req.query
NumReviewsOf(q) ==
  IF q.numReviews.present THEN q.numReviews.value ELSE DefaultNumReviews

tag == <<"<", ">">>
RATING == <<"R", "A", "T", "I", "N", "G">>

\* page.content() / document.documentElement.outerHTML
Htmls ==
  { <<>>,
    tag \o ratingWord,
    tag \o tag \o ratingWord,
    tag \o RATING \o tag \o ratingWord,
    tag \o tag \o tag \o tag \o tag \o ratingWord }

\* JSON.parse(jsonStr) when it is an object
Proposals ==
  { [f \in Fields |-> ".a"],
    [f \in {"container", "name", "review", "date"} |-> ".a"],
    [f \in {"container", "nextPageSelector"} |-> ".b"],
    [f \in Fields \ {"container"} |-> ".a"],
    [f \in Fields |-> ""],
    EmptyObject }

\* what one model.generateContent call and the parsing of its text produce
InferenceOutcomes ==
  { [kind |-> "serviceError"], [kind |-> "emptyResponse"],
    [kind |-> "parseError"],
    [kind |-> "json", truthy |-> FALSE, value |-> EmptyObject] }
  \cup { [kind |-> "json", truthy |-> TRUE, value |-> p] : p \in Proposals }

Text(s) == [present |-> TRUE, text |-> s]
Label(s) == [present |-> TRUE, hasLabel |-> TRUE, label |-> s]

\* review containers: a complete one, one rated "10 stars" without a date,
\* one without a name element rated "4 Stars", one whose body is white space
\* only and whose rating element has no label
Ann ==
  [name   |-> Text(<<" ", "A", "n", "n", " ">>),
   rating |-> Label(<<"4", " ", "s", "t", "a", "r", "s">>),
   review |-> Text(<<"o", "k">>),
   date   |-> Text(<<"M", "a", "y">>)]
Bob ==
  [name   |-> Text(<<"B", "o", "b">>),
   rating |-> Label(<<"1", "0", " ", "s", "t", "a", "r", "s">>),
   review |-> Text(<<"n", "o">>),
   date   |-> Absent]
Anonymous ==
  [name   |-> Absent,
   rating |-> Label(<<"4", " ", "S", "t", "a", "r", "s">>),
   review |-> Text(<<"o", "k">>),
   date   |-> Text(<<"M", "a", "y">>)]
Blank ==
  [name   |-> Text(<<"C", "y">>),
   rating |-> [present |-> TRUE, hasLabel |-> FALSE, label |-> <<>>],
   review |-> Text(<<" ", "\n">>),
   date   |-> Text(<<"M", "a", "y">>)]

\* document.querySelectorAll(selectors.container) on one page
PageContents ==
  { p \in { <<>>,
            <<Ann>>,
            <<Anonymous, Bob>>,
            <<Ann, Bob, Ann>>,
            <<Blank, Ann, Anonymous>>,
            <<Bob, Blank, Ann, Ann>> } : Len(p) <= MaxPerPage }

----------------------------------------------------------------------------
(* The handler of GET /api/reviews *)

IdleResolver ==
  [reviewChunks |-> <<>>, selectors |-> EmptyObject,
   selectorsFound |-> FALSE, i |-> 0]

\* no call of chunkHtml outside the handler
NotCalled == [html |-> <<>>, chunkSize |-> DefaultChunkSize,
              htmlChunks |-> <<>>, called |-> FALSE]

\* no request received yet
HandlerInit ==
  /\ backend = [r \in Reqs |-> "playwright"]
  /\ query = [r \in Reqs |-> [url |-> Absent, numReviews |-> Absent,
                              maxReviews |-> Absent]]
  /\ pc = [r \in Reqs |-> "idle"]
  /\ browser = [r \in Reqs |-> "none"]
  /\ allReviews = [r \in Reqs |-> <<>>]
  /\ selectors = [r \in Reqs |-> Null]
  /\ resolver = [r \in Reqs |-> IdleResolver]
  /\ pageNo = [r \in Reqs |-> 1]
  /\ passes = [r \in Reqs |-> <<>>]
  /\ exit = [r \in Reqs |-> "none"]
  /\ fault = [r \in Reqs |-> "none"]
  /\ ops = [r \in Reqs |-> <<>>]
  /\ responses = [r \in Reqs |-> <<>>]

Init == HandlerInit /\ chunker = NotCalled

numReviews(r) == NumReviewsOf(query[r])

\* res.status(status).json({ error })
ErrorResponse(status, error) == [status |-> status, error |-> error]

NotFound == ErrorResponse(404, "Review selectors not found.")
ServerError == ErrorResponse(500, "An error occurred while processing reviews.")

\* a handler that answers a short result as a failure
SuccessResponseStrict(all, n) ==
  IF Len(all) < n THEN NotFound
  ELSE [status |-> 200,
        reviews_numReviews |-> Len(FilteredReviews(all, n)),
        reviews |-> FilteredReviews(all, n)]

\* res.json({ reviews_numReviews, reviews })
SuccessResponse(all, n) ==
  [status |-> 200,
   reviews_numReviews |-> Len(FilteredReviews(all, n)),
   reviews |-> FilteredReviews(all, n)]

\* if (Object.keys(selectors).length === 0)   (Playwright)
\* if (!selectors.container)                  (Selenium)
SelectorsMissing(b, sel) ==
  IF b = "playwright" THEN Cardinality(DOMAIN sel) = 0
  ELSE ~Truthy(Get(sel, "container"))

\* a handler that awaits, once the loop is left, a promise nothing settles
AfterLoopPcPending(r) == "pending"

\* where the handler goes once the while loop is left: Playwright awaits
\* browser.close() before answering, Selenium answers and then runs finally
AfterLoopPc(r) == IF backend[r] = "playwright" THEN "close" ELSE "finally"

AfterLoopResponses(r, all) ==
  IF backend[r] = "playwright" THEN responses[r]
  ELSE Append(responses[r], SuccessResponse(all, numReviews(r)))

\* the catch block: answer 500; Selenium then runs finally
Catch(r, calls) ==
  /\ ops' = [ops EXCEPT ![r] = @ \o calls]
  /\ fault' = [fault EXCEPT ![r] = "caught"]
  /\ responses' = [responses EXCEPT ![r] = Append(@, ServerError)]
  /\ pc' = [pc EXCEPT ![r] = IF backend[r] = "playwright" THEN "done"
                              ELSE "finally"]

\* one of the calls throws: those before it were made, those after were not
Throws(r, calls) ==
  \E n \in 1..Len(calls) : Catch(r, SubSeq(calls, 1, n))

\* app.get('/api/reviews', async (req, res) => { ... up to the first await
Receive(r) ==
  /\ pc[r] = "idle"
  /\ UNCHANGED chunker
  /\ \E b \in Backends, q \in Queries :
       /\ backend' = [backend EXCEPT ![r] = b]
       /\ query' = [query EXCEPT ![r] = q]
       /\ IF NoUrl(q)
          THEN /\ responses' = [responses EXCEPT ![r] =
                    Append(@, ErrorResponse(400, "URL parameter is required"))]
               /\ pc' = [pc EXCEPT ![r] = "done"]
          ELSE /\ responses' = responses
               /\ pc' = [pc EXCEPT ![r] = "launch"]
  /\ UNCHANGED <<browser, allReviews, selectors, resolver, pageNo, passes,
                 exit, fault, ops>>

\* await playwright.chromium.launch(...)   (inside the try)
\* await new Builder()...build()           (before the try)
Launch(r) ==
  /\ pc[r] = "launch"
  /\ UNCHANGED chunker
  /\ \/ /\ browser' = [browser EXCEPT ![r] = "open"]
        /\ ops' = [ops EXCEPT ![r] = Append(@, "launch")]
        /\ pc' = [pc EXCEPT ![r] = IF backend[r] = "playwright"
                                    THEN "newPage" ELSE "navigate"]
        /\ UNCHANGED <<fault, responses>>
     \/ /\ backend[r] = "playwright"
        /\ Catch(r, <<"launch">>)
        /\ UNCHANGED browser
     \/ /\ backend[r] = "selenium"
        /\ ops' = [ops EXCEPT ![r] = Append(@, "launch")]
        /\ fault' = [fault EXCEPT ![r] = "unhandled"]
        /\ pc' = [pc EXCEPT ![r] = "done"]
        /\ UNCHANGED <<browser, responses>>
  /\ UNCHANGED <<backend, query, allReviews, selectors, resolver, pageNo,
                 passes, exit>>

\* await browser.newPage()
NewPage(r) ==
  /\ pc[r] = "newPage"
  /\ UNCHANGED chunker
  /\ \/ /\ ops' = [ops EXCEPT ![r] = Append(@, "newPage")]
        /\ pc' = [pc EXCEPT ![r] = "navigate"]
        /\ UNCHANGED <<fault, responses>>
     \/ Throws(r, <<"newPage">>)
  /\ UNCHANGED <<backend, query, browser, allReviews, selectors, resolver,
                 pageNo, passes, exit>>

\* await page.goto(url); await page.waitForSelector('body')
Navigate(r) ==
  /\ pc[r] = "navigate"
  /\ UNCHANGED chunker
  /\ \/ /\ ops' = [ops EXCEPT ![r] = @ \o <<"goto", "waitForBody">>]
        /\ pc' = [pc EXCEPT ![r] = "popup"]
        /\ UNCHANGED <<fault, responses>>
     \/ Throws(r, <<"goto", "waitForBody">>)
  /\ UNCHANGED <<backend, query, browser, allReviews, selectors, resolver,
                 pageNo, passes, exit>>

\* the popup check, and the first evaluation of the while condition
Popup(r) ==
  /\ pc[r] = "popup"
  /\ UNCHANGED chunker
  /\ \/ /\ ops' = [ops EXCEPT ![r] = Append(@, "findPopup")]
        /\ IF WhileCondition(allReviews[r], numReviews(r))
           THEN /\ pc' = [pc EXCEPT ![r] = "content"]
                /\ UNCHANGED <<exit, responses>>
           ELSE /\ pc' = [pc EXCEPT ![r] = AfterLoopPc(r)]
                /\ exit' = [exit EXCEPT ![r] = "condition"]
                /\ responses' = [responses EXCEPT ![r] =
                                   AfterLoopResponses(r, allReviews[r])]
        /\ UNCHANGED fault
     \/ /\ Throws(r, <<"findPopup">>)
        /\ UNCHANGED exit
  /\ UNCHANGED <<backend, query, browser, allReviews, selectors, resolver,
                 pageNo, passes>>

\* a handler that resolves the selectors again on every page
NeedsResolutionAlways(sel) == TRUE

\* if (!selectors)
NeedsResolution(sel) == sel = Null

\* a selector cache kept at module scope, shared by the requests in flight
ReturnedShared(r, sel) ==
  /\ selectors' = [q \in Reqs |-> sel]
  /\ resolver' = [resolver EXCEPT ![r] = IdleResolver]
  /\ pc' = [pc EXCEPT ![r] = IF SelectorsMissing(backend[r], sel)
                              THEN "close404" ELSE "evaluate"]

\* extractSelectors returned sel: cache it and test whether it is missing
Returned(r, sel) ==
  /\ selectors' = [selectors EXCEPT ![r] = sel]
  /\ resolver' = [resolver EXCEPT ![r] = IdleResolver]
  /\ pc' = [pc EXCEPT ![r] = IF SelectorsMissing(backend[r], sel)
                              THEN "close404" ELSE "evaluate"]

\* const fullHtml = await page.content(); if (!selectors) { chunk, filter,
\* reverse, enter extractSelectors } else reuse the cached selectors
Content(r) ==
  /\ pc[r] = "content"
  /\ UNCHANGED chunker
  /\ \/ /\ ops' = [ops EXCEPT ![r] = Append(@, "content")]
        /\ IF NeedsResolution(selectors[r])
           THEN \E fullHtml \in Htmls :
                  LET htmlChunks == chunkHtml(fullHtml, DefaultChunkSize)
                      reviewChunks == Reverse(filterChunksWithReviews(htmlChunks))
                      loc == [IdleResolver EXCEPT !.reviewChunks = reviewChunks]
                  IN IF LoopContinues(loc)
                     THEN /\ resolver' = [resolver EXCEPT ![r] = loc]
                          /\ pc' = [pc EXCEPT ![r] = "infer"]
                          /\ UNCHANGED selectors
                     ELSE Returned(r, loc.selectors)
           ELSE /\ pc' = [pc EXCEPT ![r] = "evaluate"]
                /\ UNCHANGED <<selectors, resolver>>
        /\ UNCHANGED <<fault, responses>>
     \/ /\ Throws(r, <<"content">>)
        /\ UNCHANGED <<selectors, resolver>>
  /\ UNCHANGED <<backend, query, browser, allReviews, pageNo, passes, exit>>

\* await model.generateContent(prompt) for chunk i, the rest of the loop
\* body, and the return of extractSelectors when the loop ends
Infer(r) ==
  /\ pc[r] = "infer"
  /\ UNCHANGED chunker
  /\ \E out \in InferenceOutcomes :
       LET loc == AfterInference(resolver[r], out)
       IN IF LoopContinues(loc)
          THEN /\ resolver' = [resolver EXCEPT ![r] = loc]
               /\ UNCHANGED <<pc, selectors>>
          ELSE Returned(r, loc.selectors)
  /\ ops' = [ops EXCEPT ![r] = Append(@, "generateContent")]
  /\ UNCHANGED <<backend, query, browser, allReviews, pageNo, passes, exit,
                 fault, responses>>

\* await browser.close(); return res.status(404)...   (Playwright)
\* await driver.quit(); return res.status(404)...     (Selenium, then finally)
Close404(r) ==
  /\ pc[r] = "close404"
  /\ UNCHANGED chunker
  /\ \/ /\ browser' = [browser EXCEPT ![r] = "closed"]
        /\ ops' = [ops EXCEPT ![r] = Append(@, "close")]
        /\ responses' = [responses EXCEPT ![r] = Append(@, NotFound)]
        /\ pc' = [pc EXCEPT ![r] = IF backend[r] = "playwright" THEN "done"
                                    ELSE "finally"]
        /\ UNCHANGED fault
     \/ /\ Throws(r, <<"close">>)
        /\ UNCHANGED browser
  /\ UNCHANGED <<backend, query, allReviews, selectors, resolver, pageNo,
                 passes, exit>>

\* const reviews = await page.evaluate(...); allReviews = [...allReviews,
\* ...reviews]; if (allReviews.length >= numReviews) break
Evaluate(r) ==
  /\ pc[r] = "evaluate"
  /\ UNCHANGED chunker
  /\ \/ /\ \E reviewElements \in PageContents :
             LET reviews == ExtractReviews(reviewElements, selectors[r])
                 all == allReviews[r] \o reviews
             IN /\ allReviews' = [allReviews EXCEPT ![r] = all]
                /\ passes' = [passes EXCEPT ![r] = Append(@, Len(reviews))]
                /\ IF Enough(all, numReviews(r))
                   THEN /\ exit' = [exit EXCEPT ![r] = "enough"]
                        /\ pc' = [pc EXCEPT ![r] = AfterLoopPc(r)]
                        /\ responses' = [responses EXCEPT ![r] =
                                           AfterLoopResponses(r, all)]
                   ELSE /\ pc' = [pc EXCEPT ![r] = "nextPage"]
                        /\ UNCHANGED <<exit, responses>>
        /\ ops' = [ops EXCEPT ![r] = Append(@, "evaluate")]
        /\ UNCHANGED fault
     \/ /\ Throws(r, <<"evaluate">>)
        /\ UNCHANGED <<allReviews, passes, exit>>
  /\ UNCHANGED <<backend, query, browser, selectors, resolver, pageNo>>

\* const nextPageButton = await page.$(selectors.nextPageSelector); click it
\* and wait, or break; then the while condition again
NextPage(r) ==
  /\ pc[r] = "nextPage"
  /\ UNCHANGED chunker
  /\ \/ \* the control is on the page
        /\ Truthy(Get(selectors[r], "nextPageSelector"))
        /\ pageNo[r] < MaxPages
        /\ ops' = [ops EXCEPT ![r] = @ \o <<"findNext", "clickNext", "sleep">>]
        /\ pageNo' = [pageNo EXCEPT ![r] = @ + 1]
        /\ IF WhileCondition(allReviews[r], numReviews(r))
           THEN /\ pc' = [pc EXCEPT ![r] = "content"]
                /\ UNCHANGED <<exit, responses>>
           ELSE /\ pc' = [pc EXCEPT ![r] = AfterLoopPc(r)]
                /\ exit' = [exit EXCEPT ![r] = "condition"]
                /\ responses' = [responses EXCEPT ![r] =
                                   AfterLoopResponses(r, allReviews[r])]
        /\ UNCHANGED fault
     \/ \* the control is not on the page
        /\ Truthy(Get(selectors[r], "nextPageSelector"))
        /\ ops' = [ops EXCEPT ![r] = Append(@, "findNext")]
        /\ exit' = [exit EXCEPT ![r] = "noNextPage"]
        /\ pc' = [pc EXCEPT ![r] = AfterLoopPc(r)]
        /\ responses' = [responses EXCEPT ![r] =
                           AfterLoopResponses(r, allReviews[r])]
        /\ UNCHANGED <<pageNo, fault>>
     \/ \* the lookup, the click or the wait throws
        /\ Truthy(Get(selectors[r], "nextPageSelector"))
        /\ Throws(r, <<"findNext", "clickNext", "sleep">>)
        /\ UNCHANGED <<pageNo, exit>>
     \/ \* the lookup rejects a selector that is undefined
        /\ ~Truthy(Get(selectors[r], "nextPageSelector"))
        /\ Catch(r, <<"findNext">>)
        /\ UNCHANGED <<pageNo, exit>>
  /\ UNCHANGED <<backend, query, browser, allReviews, selectors, resolver,
                 passes>>

\* await browser.close(); ... return res.json(...)   (Playwright, after the loop)
Close(r) ==
  /\ pc[r] = "close"
  /\ UNCHANGED chunker
  /\ \/ /\ browser' = [browser EXCEPT ![r] = "closed"]
        /\ ops' = [ops EXCEPT ![r] = Append(@, "close")]
        /\ responses' = [responses EXCEPT ![r] =
             Append(@, SuccessResponse(allReviews[r], numReviews(r)))]
        /\ pc' = [pc EXCEPT ![r] = "done"]
        /\ UNCHANGED fault
     \/ /\ Throws(r, <<"close">>)
        /\ UNCHANGED browser
  /\ UNCHANGED <<backend, query, allReviews, selectors, resolver, pageNo,
                 passes, exit>>

\* finally { await driver.quit(); }   (Selenium)
Finally(r) ==
  /\ pc[r] = "finally"
  /\ UNCHANGED chunker
  /\ ops' = [ops EXCEPT ![r] = Append(@, "close")]
  /\ pc' = [pc EXCEPT ![r] = "done"]
  /\ \/ /\ browser' = [browser EXCEPT ![r] = "closed"]
        /\ UNCHANGED fault
     \/ /\ fault' = [fault EXCEPT ![r] = "unhandled"]
        /\ UNCHANGED browser
  /\ UNCHANGED <<backend, query, allReviews, selectors, resolver, pageNo,
                 passes, exit, responses>>

Step(r) ==
  \/ Receive(r)
  \/ Launch(r)
  \/ NewPage(r)
  \/ Navigate(r)
  \/ Popup(r)
  \/ Content(r)
  \/ Infer(r)
  \/ Close404(r)
  \/ Evaluate(r)
  \/ NextPage(r)
  \/ Close(r)
  \/ Finally(r)

\* one request in flight
Next == Step(1)

Spec == Init /\ [][Next]_vars

\* every awaited call settles: the handler is resumed after each await
SpecLive == Init /\ [][Next]_vars /\ WF_vars(Next)

\* the numReviews value the requests served together ask for
ConcTarget == 1

\* how far a request served together with another goes
ConcMaxPasses == 2
ConcMaxReviews == 2

\* the traffic when two requests are served together: ?url=...&numReviews=1
\* against pages whose review markup lies within a single chunk
LightLoad(r) ==
  /\ query[r].maxReviews = Absent
  /\ pc[r] # "idle" => query[r].numReviews = Param(ConcTarget)
  /\ resolver[r].reviewChunks # <<>> => Tail(resolver[r].reviewChunks) = <<>>
  /\ Len(passes[r]) <= ConcMaxPasses
  /\ Len(allReviews[r]) <= ConcMaxReviews

\* two requests in flight: the event loop resumes either handler at each of
\* its awaits
NextConc == (\E r \in Reqs : Step(r)) /\ (\A r \in Reqs : LightLoad(r))'

SpecConc == Init /\ [][NextConc]_vars

\* chunkHtml called on its own with a string and an explicit chunk size
HtmlChars == {"a", "b"}
HtmlStrings == UNION {[1..n -> HtmlChars] : n \in 0..MaxHtmlLen}

InitChunk ==
  /\ HandlerInit
  /\ chunker \in [html : HtmlStrings, chunkSize : 1..MaxChunkSize,
                   htmlChunks : {<<>>}, called : {FALSE}]

ChunkHtml ==
  /\ ~chunker.called
  /\ chunker' = [chunker EXCEPT
                   !.htmlChunks = chunkHtml(chunker.html, chunker.chunkSize),
                   !.called = TRUE]
  /\ UNCHANGED <<backend, query, pc, browser, allReviews, selectors, resolver,
                 pageNo, passes, exit, fault, ops, responses>>

NextChunk == ChunkHtml

SpecChunk == InitChunk /\ [][NextChunk]_vars

----------------------------------------------------------------------------
(* Properties *)

Range(seq) == {seq[k] : k \in DOMAIN seq}

Terminal(r) == pc[r] = "done"

\* a SelectorSet is usable when container, name, review and date are set
Usable(sel) ==
  \A f \in {"container", "name", "review", "date"} : Truthy(Get(sel, f))

\* the request carried a url the handler accepts
HasUrl(r) == query[r].url.present /\ query[r].url.value # ""

\* the handler resolved a selector set and it is not usable
ResolvedUnusable(r) == selectors[r] # Null /\ ~Usable(selectors[r])

\* the reviews of the success response, once one was sent
Answered200(r) == responses[r] # <<>> /\ responses[r][1].status = 200

\* C1: a handler that launched a browser session has called close on it by
\* the time it terminates, on the success path, the 404 path and every path
\* on which a call throws.
C1_SessionClosedOnEveryExit ==
  \A r \in Reqs :
    Terminal(r) /\ browser[r] # "none" => "close" \in Range(ops[r])

\* C2: when the resolved selector set is not usable, no extraction pass and
\* no next-page lookup is made with it, and the handler answers 404 unless a
\* call throws.
C2_UnusableSelectorsAnswer404 ==
  \A r \in Reqs :
    ResolvedUnusable(r) =>
      /\ pc[r] \in {"close404", "finally", "done"}
      /\ "evaluate" \notin Range(ops[r])
      /\ "findNext" \notin Range(ops[r])
      /\ Terminal(r) /\ fault[r] = "none" => responses[r] = <<NotFound>>

\* C3: a request without a url parameter is answered 400 at once, and no
\* browser call and no inference call is made for it.
C3_MissingUrlShortCircuits ==
  \A r \in Reqs :
    pc[r] # "idle" /\ ~query[r].url.present =>
      /\ Terminal(r)
      /\ Len(responses[r]) = 1
      /\ responses[r][1].status = 400
      /\ ops[r] = <<>>
      /\ browser[r] = "none"

C3_Witness ==
  \E r \in Reqs :
    /\ Terminal(r)
    /\ ~query[r].url.present
    /\ responses[r] = <<ErrorResponse(400, "URL parameter is required")>>

\* C4: every record of a success response has a non-empty reviewer name and
\* a non-empty body; and every record among the first numReviews accumulated
\* ones that has both is in the response, whatever its rating and date.
C4_RetainedIffNameAndBody ==
  \A r \in Reqs :
    Answered200(r) =>
      LET reviews == responses[r][1].reviews
          n == Min(Len(allReviews[r]), numReviews(r))
      IN /\ \A k \in 1..Len(reviews) :
              reviews[k].reviewer # <<>> /\ reviews[k].body # <<>>
         /\ \A k \in 1..n :
              allReviews[r][k].reviewer # <<>> /\ allReviews[r][k].body # <<>>
                => allReviews[r][k] \in Range(reviews)

\* a success response that kept a record without a date and dropped one
\* record with an empty name and one with an empty body
C4_Witness ==
  \E r \in Reqs :
    /\ Answered200(r)
    /\ \E rec \in Range(responses[r][1].reviews) : rec.date = <<>>
    /\ LET first == Range(Slice(allReviews[r], numReviews(r)))
       IN /\ \E rec \in first : rec.reviewer = <<>> /\ rec.body # <<>>
          /\ \E rec \in first : rec.reviewer # <<>> /\ rec.body = <<>>

\* C5: a success response holds at most numReviews records (5 when the
\* request names no numReviews), whatever the pages yield.
C5_AtMostNumReviews ==
  \A r \in Reqs :
    Answered200(r) =>
      Len(responses[r][1].reviews) <=
        (IF query[r].numReviews.present THEN query[r].numReviews.value ELSE 5)

\* a request without numReviews answered with exactly 5 records cut from a
\* longer accumulator
C5_Witness ==
  \E r \in Reqs :
    /\ Answered200(r)
    /\ ~query[r].numReviews.present
    /\ Len(responses[r][1].reviews) = 5
    /\ Len(allReviews[r]) > 5

\* C6: a request carrying maxReviews = M gets at most M reviews, and the
\* pagination loop makes no further pass once M reviews are accumulated.
C6_MaxReviewsLimits ==
  \A r \in Reqs :
    query[r].maxReviews.present =>
      /\ Answered200(r) =>
           Len(responses[r][1].reviews) <= query[r].maxReviews.value
      /\ pc[r] \in {"nextPage", "content", "evaluate"} =>
           Len(allReviews[r]) < query[r].maxReviews.value

\* C7: every record an extraction pass produced has a rating between 0 and 5.
C7_RatingBetween0And5 ==
  \A r \in Reqs :
    \A k \in 1..Len(allReviews[r]) : allReviews[r][k].rating \in 0..5

\* the status C8 assigns to the terminal condition of a request
C8_Status(r) ==
  IF ~HasUrl(r) THEN 400
  ELSE IF fault[r] # "none" THEN 500
  ELSE IF selectors[r] = Null \/ ~Usable(selectors[r]) THEN 404
  ELSE 200

\* C8: a terminated request was answered exactly once, with 400 for a
\* missing url, 500 when an exception was raised, 404 when no usable
\* selector set was discovered, and success otherwise.
C8_OneResponsePerTerminalCondition ==
  \A r \in Reqs :
    Terminal(r) =>
      Len(responses[r]) = 1 /\ responses[r][1].status = C8_Status(r)

C10_ScenarioA(r) ==
  /\ Terminal(r)
  /\ HasUrl(r)
  /\ numReviews(r) = 5
  /\ fault[r] = "none"
  /\ exit[r] \in {"enough", "condition"}
  /\ passes[r] # <<>>
  /\ \A k \in 1..Len(passes[r]) : passes[r][k] = 3
  /\ \A k \in 1..Len(allReviews[r]) : IsRetained(allReviews[r][k])

\* C10 as stated: scenario A runs three extraction passes, accumulates 9
\* records and returns them trimmed to 5.
C10_ScenarioARunsThreePages ==
  \A r \in Reqs :
    C10_ScenarioA(r) =>
      /\ Len(passes[r]) = 3
      /\ Len(allReviews[r]) = 9
      /\ Answered200(r)
      /\ responses[r][1].reviews = Slice(allReviews[r], 5)

\* C10 (amended): scenario A runs two extraction passes, accumulates 6
\* records, never shows page 3, and returns the 6 records trimmed to 5.
C10_ScenarioARunsTwoPages ==
  \A r \in Reqs :
    C10_ScenarioA(r) =>
      /\ Len(passes[r]) = 2
      /\ Len(allReviews[r]) = 6
      /\ pageNo[r] = 2
      /\ Answered200(r)
      /\ responses[r][1].reviews = Slice(allReviews[r], 5)

C10_Witness ==
  \E r \in Reqs :
    /\ C10_ScenarioA(r)
    /\ passes[r] = <<3, 3>>
    /\ Len(responses[r][1].reviews) = 5

\* the selector set accumulated by the resolver of request r: the local of
\* extractSelectors while it runs, the value it returned once it has returned
ResolverSelectorsNow(r) ==
  IF pc[r] = "infer" THEN resolver[r].selectors ELSE EmptyObject

ResolverSelectorsNext(r) ==
  IF pc'[r] = "infer" THEN resolver'[r].selectors ELSE selectors'[r]

\* C13: within one call of extractSelectors, a field of the accumulated
\* selector set that holds a non-empty value keeps that value through every
\* later chunk's proposal (first non-empty value wins).
C13_MergeIsMonotonic ==
  [][\A r \in Reqs :
       pc[r] = "infer" =>
         \A f \in Fields :
           Truthy(Get(ResolverSelectorsNow(r), f)) =>
             Get(ResolverSelectorsNext(r), f) = Get(ResolverSelectorsNow(r), f)]_vars

\* every one of the six fields holds a non-empty selector
Complete(sel) == \A f \in Fields : Truthy(Get(sel, f))

\* C14 (as stated): no inference call is made for a remaining chunk once the
\* merged selector set is usable (container, name, review and date set).
C14_NoCallOnceUsable ==
  \A r \in Reqs : pc[r] = "infer" => ~Usable(resolver[r].selectors)

\* C14 (amended): no inference call is made for a remaining chunk once all six
\* fields of the merged set are non-empty, and the resolver skips remaining
\* chunks only when the set it returns has all six fields non-empty or is the
\* still-empty set.
C14_NoCallOnceComplete ==
  [][\A r \in Reqs :
       /\ pc'[r] = "infer" => ~Complete(resolver'[r].selectors)
       /\ ( /\ pc[r] = "infer"
            /\ pc'[r] # "infer"
            /\ resolver[r].i + 1 < Len(resolver[r].reviewChunks) )
          => (Complete(selectors'[r]) \/ selectors'[r] = EmptyObject)]_vars

\* a further inference call is pending although the merged set is usable
C14_Witness ==
  \E r \in Reqs :
    /\ pc[r] = "infer"
    /\ resolver[r].i >= 1
    /\ Usable(resolver[r].selectors)
    /\ ~Complete(resolver[r].selectors)

\* the calls logged after the last extraction pass
AfterLastEvaluate(calls) ==
  LET at == {k \in DOMAIN calls : calls[k] = "evaluate"}
      last == CHOOSE k \in at : \A j \in at : j <= k
  IN IF at = {} THEN calls ELSE SubSeq(calls, last + 1, Len(calls))

\* C15: once an extraction pass has brought the accumulated count to the
\* target, the loop is left at once: no lookup or click of the next-page
\* control and no further page read or extraction follows that pass; a first
\* page of exactly target-many valid records is answered with exactly that
\* many after one pass.
C15_StopCheckedRightAfterExtraction ==
  \A r \in Reqs :
    (passes[r] # <<>> /\ Len(allReviews[r]) >= numReviews(r)) =>
      /\ pc[r] \in {"close", "finally", "done"}
      /\ exit[r] = "enough"
      /\ Range(AfterLastEvaluate(ops[r])) \subseteq {"close"}
      /\ ( /\ Answered200(r)
           /\ passes[r][1] = numReviews(r)
           /\ \A k \in DOMAIN allReviews[r] : IsRetained(allReviews[r][k]) )
         => /\ passes[r] = <<numReviews(r)>>
            /\ Len(responses[r][1].reviews) = numReviews(r)

\* a first page of exactly the target number of valid records, answered
C15_Witness ==
  \E r \in Reqs :
    /\ Terminal(r)
    /\ Answered200(r)
    /\ passes[r] = <<numReviews(r)>>
    /\ exit[r] = "enough"
    /\ Len(responses[r][1].reviews) = numReviews(r)

\* no call of kind a is logged after a call of kind b
NeverAfter(calls, a, b) ==
  \A j, k \in DOMAIN calls : (calls[j] = b /\ calls[k] = a) => k < j

\* C16: selectors are resolved at most once per request: inference calls
\* happen only before the first extraction pass, and the selector set, once
\* resolved, is never modified however many pages are visited.
C16_SelectorsResolvedOnce ==
  [][\A r \in Reqs :
       /\ selectors[r] # Null => selectors'[r] = selectors[r]
       /\ pc'[r] = "infer" => passes'[r] = <<>>
       /\ NeverAfter(ops'[r], "generateContent", "evaluate")]_vars

\* several pages were extracted with selectors resolved through inference
C16_Witness ==
  \E r \in Reqs :
    /\ Len(passes[r]) >= 2
    /\ selectors[r] # Null
    /\ "generateContent" \in Range(ops[r])
    /\ pc[r] = "evaluate"

\* how many calls of kind a are logged
CountOf(calls, a) == Cardinality({k \in DOMAIN calls : calls[k] = a})

\* C17: a failed inference call (service error, empty response, unparsable
\* output) stays inside the resolver: the accumulated selector set and the
\* found flag are as before that chunk, the resolver moves to the next chunk,
\* the handler sees no exception and sends nothing, and each processed chunk
\* costs exactly one inference call.
C17_InferenceFailureAbsorbed ==
  [][\A r \in Reqs :
       pc[r] = "infer" =>
         /\ \A out \in InferenceOutcomes :
              out.kind # "json" =>
                LET loc == AfterInference(resolver[r], out)
                IN /\ loc.selectors = resolver[r].selectors
                   /\ loc.selectorsFound = resolver[r].selectorsFound
                   /\ loc.i = resolver[r].i + 1
                   /\ loc.reviewChunks = resolver[r].reviewChunks
         /\ CountOf(ops[r], "generateContent") = resolver[r].i
         /\ CountOf(ops'[r], "generateContent") = resolver[r].i + 1
         /\ fault'[r] = "none"
         /\ responses'[r] = <<>>
         /\ pc'[r] \in {"infer", "close404", "evaluate"}
         /\ pc'[r] = "infer" => resolver'[r].i = resolver[r].i + 1]_vars

\* the first chunk's call failed and the resolver is at the second chunk
C17_Witness ==
  \E r \in Reqs :
    /\ pc[r] = "infer"
    /\ resolver[r].i = 1
    /\ resolver[r].selectors = EmptyObject
    /\ CountOf(ops[r], "generateContent") = 1

\* C18: no request invokes the close operation of its browser session more
\* than once; on the selectors-not-found path it is invoked exactly once.
C18_ClosedAtMostOnce ==
  \A r \in Reqs :
    /\ CountOf(ops[r], "close") <= 1
    /\ (Terminal(r) /\ responses[r] = <<NotFound>>)
         => CountOf(ops[r], "close") = 1

\* C19: with a usable selector set whose next-page field is unset and the
\* count still below the target after an extraction pass, pagination ends
\* normally: the loop is left as if no next-page control were present and the
\* request does not fail.
C19_UnsetNextPageEndsPagination ==
  [][\A r \in Reqs :
       ( /\ pc[r] = "nextPage"
         /\ pc'[r] # "nextPage"
         /\ Usable(selectors[r])
         /\ ~Truthy(Get(selectors[r], "nextPageSelector")) )
       => /\ fault'[r] = "none"
          /\ exit'[r] = "noNextPage"
          /\ \A k \in DOMAIN responses'[r] : responses'[r][k].status = 200]_vars

\* a record with a non-empty name and a non-empty body
NamedWithBody(rec) == Len(rec.title) > 0 /\ Len(rec.body) > 0

\* the first n elements of a sequence, or all of it when it is shorter
FirstN(seq, n) == SubSeq(seq, 1, IF Len(seq) < n THEN Len(seq) ELSE n)

\* C20: the accumulator is the concatenation of the pages' records in visit
\* order, and the reviews of a success response are its first target-count
\* elements with the records of empty name or empty body dropped afterwards,
\* order preserved; the stop condition counts every record, valid or not.
C20_TrimThenFilter ==
  [][\A r \in Reqs :
       /\ Len(allReviews'[r]) >= Len(allReviews[r])
       /\ SubSeq(allReviews'[r], 1, Len(allReviews[r])) = allReviews[r]
       /\ (passes'[r] # passes[r]) =>
            /\ Len(allReviews'[r]) =
                 Len(allReviews[r]) + passes'[r][Len(passes'[r])]
            /\ (exit'[r] = "enough") <=> (Len(allReviews'[r]) >= numReviews(r))
       /\ (responses'[r] # <<>> /\ responses'[r][1].status = 200) =>
            responses'[r][1].reviews =
              SelectSeq(FirstN(allReviews'[r], numReviews(r)), NamedWithBody)]_vars

\* a response short of the target although the accumulator held enough valid
\* records to fill it
C20_Witness ==
  \E r \in Reqs :
    /\ Answered200(r)
    /\ Len(responses[r][1].reviews) < numReviews(r)
    /\ Len(SelectSeq(allReviews[r], NamedWithBody)) >= numReviews(r)

Local(r) ==
  <<backend[r], query[r], pc[r], browser[r], allReviews[r], selectors[r],
    resolver[r], pageNo[r], passes[r], exit[r], fault[r], ops[r], responses[r]>>

\* C11: with two requests interleaving at their awaits, a step of one request
\* leaves everything the other owns as it was (selector cache, resolver
\* locals, accumulator, response), a request's accumulator grows only by the
\* records extracted with its own selector set, and its success response is
\* computed from its own accumulator and its own target.
C11_RequestsAreIsolated ==
  [][\A r \in Reqs :
       /\ Local(r)' # Local(r) =>
            \A q \in Reqs \ {r} : Local(q)' = Local(q)
       /\ allReviews'[r] # allReviews[r] =>
            \E reviewElements \in PageContents :
              allReviews'[r] =
                allReviews[r] \o ExtractReviews(reviewElements, selectors[r])
       /\ (responses'[r] # <<>> /\ responses'[r][1].status = 200) =>
            responses'[r][1] = SuccessResponse(allReviews'[r], numReviews(r))]_vars

\* two requests in flight at once, both past their loops and not yet closed,
\* with different selector sets and different accumulators
C11_Witness ==
  /\ pc[1] \in {"close", "finally"}
  /\ pc[2] \in {"close", "finally"}
  /\ Len(passes[1]) > Len(passes[2])
  /\ selectors[1] # Null
  /\ selectors[2] # selectors[1]
  /\ allReviews[1] # <<>>
  /\ allReviews[2] # <<>>
  /\ allReviews[1] # allReviews[2]

\* the integer before the word "star" in the label, upper or lower case, and
\* 0 without a rating element, a label or a match
LabelRating(ratingElement) ==
  IF /\ ratingElement.present
     /\ ratingElement.hasLabel
     /\ HasMatch(toLowerCase(ratingElement.label))
  THEN parseInt(MatchGroup(toLowerCase(ratingElement.label)))
  ELSE 0

\* C21: every record an extraction pass adds carries as rating the integer
\* before the word "star" of its rating element's label, matched without
\* regard to case, or 0 when the element, the label or the match is missing,
\* and its other fields are extracted all the same.
C21_RatingFromLabelAnyCase ==
  [][\A r \in Reqs :
       passes'[r] # passes[r] =>
         \E reviewElements \in PageContents :
           allReviews'[r] = allReviews[r] \o
             [k \in 1..Len(ExtractReviews(reviewElements, selectors[r])) |->
                [ExtractReview(reviewElements[k], selectors[r]) EXCEPT
                   !.rating = LabelRating(querySelector(reviewElements[k],
                                                        selectors[r], "rating"))]]]_vars

RECURSIVE Concat(_)
\* the strings of a sequence joined in order
Concat(strings) ==
  IF strings = <<>> THEN <<>> ELSE Head(strings) \o Concat(Tail(strings))

\* ceil(n / d)
CeilDiv(n, d) == (n + d - 1) \div d

\* C22: chunkHtml(H, S) returns ceil(len(H)/S) chunks, the k-th being the
\* window of H that starts right after the first (k-1)*S characters, each of
\* length S except possibly a shorter, non-empty last one; joined in order
\* they give H back, and the empty string gives no chunk.
C22_ChunksPartitionHtml ==
  chunker.called =>
    LET H == chunker.html
        S == chunker.chunkSize
        chunks == chunker.htmlChunks
        n == Len(chunks)
    IN /\ n = CeilDiv(Len(H), S)
       /\ H = <<>> => chunks = <<>>
       /\ \A k \in 1..n :
            /\ chunks[k] = SubSeq(H, (k - 1) * S + 1,
                                  IF k * S < Len(H) THEN k * S ELSE Len(H))
            /\ k < n => Len(chunks[k]) = S
            /\ Len(chunks[k]) >= 1 /\ Len(chunks[k]) <= S
       /\ Concat(chunks) = H

\* a call that returned several chunks, the last of them shorter than S
C22_Witness ==
  /\ chunker.called
  /\ Len(chunker.htmlChunks) >= 2
  /\ Len(chunker.htmlChunks[Len(chunker.htmlChunks)]) < chunker.chunkSize

\* the statuses of the responses a request was sent
Statuses(r) == [k \in DOMAIN responses[r] |-> responses[r][k].status]

\* C23: the same request served by the Playwright and by the Selenium
\* handler, with the same selector set resolved and no call throwing in
\* either, ends with the same response status and the same number of close
\* calls on the session.
C23_BackendsAgree ==
  \A r, q \in Reqs :
    ( /\ backend[r] = "playwright"
      /\ backend[q] = "selenium"
      /\ Terminal(r)
      /\ Terminal(q)
      /\ query[r] = query[q]
      /\ selectors[r] = selectors[q]
      /\ fault[r] = "none"
      /\ fault[q] = "none" )
    => /\ Statuses(r) = Statuses(q)
       /\ CountOf(ops[r], "close") = CountOf(ops[q], "close")

====
